---- MODULE Spec2Model ----
(***************************************************************************)
(* State-machine model of the xyz_log logging facade (spdlog backend):     *)
(* Logger::Init / Shutdown / SetLogLevel / GetLogLevel and the per-call    *)
(* record builder FastLogStream, together with the delivery engine they    *)
(* drive (bounded queue, worker thread, file and console sinks).           *)
(***************************************************************************)
EXTENDS Integers, Sequences, FiniteSets, TLC

\* ------------------------------------------------------------------ bounds
NumThreads == 2
MaxLogs == 2
MaxSessions == 2
MaxShutdown == 1
MaxTotalLogs == 3
MaxTime == 1
MaxPathLen == 3
MaxAppends == 2

Threads == 1..NumThreads

\* ------------------------------------------------------- LogLevel (enum)
TRACE == 0
DEBUG == 1
INFO == 2
WARNING == 3
ERROR == 4
FATAL == 5

LogLevels == {TRACE, DEBUG, INFO, WARNING, ERROR, FATAL}

\* spdlog::level::level_enum, in its order
SpdlogLevels == <<"trace", "debug", "info", "warn", "err", "critical", "off">>

SpdlogRank(s) == CHOOSE i \in 1..Len(SpdlogLevels) : SpdlogLevels[i] = s

\* the switch that maps LogLevel to spdlog::level (same text in three places)
LevelSwitch(l) ==
    CASE l = TRACE -> "trace"
      [] l = DEBUG -> "debug"
      [] l = INFO -> "info"
      [] l = WARNING -> "warn"
      [] l = ERROR -> "err"
      [] l = FATAL -> "critical"
      [] OTHER -> "info"

\* a slip in the switch: ERROR sent to warn
LevelSwitchErrAsWarn(l) == IF l = ERROR THEN "warn" ELSE LevelSwitch(l)

InitSpdlogLevel(l) == LevelSwitch(l)
SetSpdlogLevel(l) == LevelSwitch(l)
MsgSpdlogLevel(l) == LevelSwitch(l)

\* logger::should_log
should_log(msg_level, logger_level) == SpdlogRank(msg_level) >= SpdlogRank(logger_level)

\* ----------------------------------------------------------- LoggerOptions
\* 10 * 1024 * 1024
DefaultMaxLogSize == 10485760

DefaultOptions ==
    [program_name |-> "my_app", log_dir |-> "", enable_console |-> FALSE,
     async_mode |-> TRUE, multi_thread |-> TRUE, async_queue_size |-> 32768,
     log_level |-> ERROR, max_log_size |-> DefaultMaxLogSize]

\* the options the callers of Init pass
OptionChoices ==
    { [program_name |-> "app1", log_dir |-> "d1", enable_console |-> FALSE,
       async_mode |-> TRUE, multi_thread |-> TRUE, async_queue_size |-> 1,
       log_level |-> INFO, max_log_size |-> DefaultMaxLogSize],
      [program_name |-> "app2", log_dir |-> "d2", enable_console |-> TRUE,
       async_mode |-> FALSE, multi_thread |-> TRUE, async_queue_size |-> 2,
       log_level |-> WARNING, max_log_size |-> DefaultMaxLogSize],
      [program_name |-> "app3", log_dir |-> "", enable_console |-> TRUE,
       async_mode |-> TRUE, multi_thread |-> FALSE, async_queue_size |-> 2,
       log_level |-> TRACE, max_log_size |-> DefaultMaxLogSize] }

\* options with a small rotation threshold
RotateOptions ==
    { [program_name |-> "app1", log_dir |-> "d1", enable_console |-> TRUE,
       async_mode |-> FALSE, multi_thread |-> TRUE, async_queue_size |-> 1,
       log_level |-> INFO, max_log_size |-> 1],
      [program_name |-> "app2", log_dir |-> "", enable_console |-> FALSE,
       async_mode |-> TRUE, multi_thread |-> TRUE, async_queue_size |-> 2,
       log_level |-> INFO, max_log_size |-> 3] }

\* the lengths of the records the statements build
RecordLengths == {1, 2}

\* -------------------------------------------------- choices made by Init
\* spdlog::init_thread_pool(opts.async_queue_size, 1): one worker thread
WorkerThreadsTwo == 1 + 1
WorkerThreads == 1

Workers == 1..WorkerThreads

\* the destinations of the sinks, and who writes to them: the calling threads
\* (synchronous logger) and the pool's workers (asynchronous logger)
Destinations == {"file", "console"}
WorkerId(w) == NumThreads + w
Writers == Threads \cup {WorkerId(w) : w \in Workers}

\* the overflow policy handed to the async logger
OverflowPolicyOverrun == "overrun_oldest"
OverflowPolicy == "block"

\* queue capacity handed to the thread pool
QueueCapacityPlusOne(o) == o.async_queue_size + 1
QueueCapacity(o) == o.async_queue_size

\* ------------------------------------------------------------ glog backend
\* google::LogSeverity
GLOG_INFO == 0
GLOG_WARNING == 1
GLOG_ERROR == 2
GLOG_FATAL == 3

\* the switch of Init on opts.log_level
GlogInitLevel(l) ==
    CASE l \in {TRACE, DEBUG} -> GLOG_INFO
      [] l = INFO -> GLOG_INFO
      [] l = WARNING -> GLOG_WARNING
      [] l = ERROR -> GLOG_ERROR
      [] l = FATAL -> GLOG_FATAL
      [] OTHER -> GLOG_ERROR

\* the switch of SetLogLevel
GlogSetLevel(l) ==
    CASE l \in {TRACE, DEBUG} -> GLOG_INFO
      [] l = INFO -> GLOG_INFO
      [] l = WARNING -> GLOG_WARNING
      [] l = ERROR -> GLOG_ERROR
      [] l = FATAL -> GLOG_FATAL
      [] OTHER -> GLOG_INFO

\* GetLogLevel: "if (!g_glog_inited) return LogLevel::INFO;" then the flag
GlogGetLevel(inited, minloglevel) ==
    IF ~inited THEN INFO
    ELSE IF minloglevel >= GLOG_FATAL THEN FATAL
    ELSE IF minloglevel >= GLOG_ERROR THEN ERROR
    ELSE IF minloglevel >= GLOG_WARNING THEN WARNING
    ELSE INFO

\* FLAGS_max_log_size is in MB, at least 1
MiB == 1024 * 1024
GlogMaxLogSize(o) ==
    IF o.max_log_size \div MiB < 1 THEN 1 ELSE o.max_log_size \div MiB

\* "if (opts.enable_coredump_log) google::InstallFailureSignalHandler();"
InstallCallsAlways(o) == 1
InstallCalls(o) == IF o.enable_coredump_log THEN 1 ELSE 0

\* the options the callers of Init pass in the glog build
GlogOptionChoices ==
    { [program_name |-> "app1", log_dir |-> "d1", enable_console |-> FALSE,
       log_level |-> DEBUG, max_log_size |-> DefaultMaxLogSize,
       enable_coredump_log |-> TRUE],
      [program_name |-> "app2", log_dir |-> "", enable_console |-> TRUE,
       log_level |-> WARNING, max_log_size |-> 2,
       enable_coredump_log |-> FALSE],
      [program_name |-> "app3", log_dir |-> "d3", enable_console |-> FALSE,
       log_level |-> FATAL, max_log_size |-> 3 * MiB,
       enable_coredump_log |-> FALSE] }

\* ------------------------------------------- FastLogStream: the buffer
\* strings are sequences of characters
Chars == {"a", "/", "\\"}
Paths == UNION {[1..n -> Chars] : n \in 0..MaxPathLen}
Lines == {7, 120}

\* std::strrchr(s, ch): the last place of ch in s, 0 (null) when there is none
strrchr(s, ch) ==
    IF \E i \in 1..Len(s) : s[i] = ch
    THEN CHOOSE i \in 1..Len(s) : s[i] = ch /\ \A j \in (i + 1)..Len(s) : s[j] # ch
    ELSE 0

\* the pointer one past place i
After(s, i) == SubSeq(s, i + 1, Len(s))

\* the constructor: after the last '/', and in what is left after the last '\'
FilenameSlashOnly(path) == After(path, strrchr(path, "/"))
Filename(path) ==
    LET filename == After(path, strrchr(path, "/"))
    IN  After(filename, strrchr(filename, "\\"))

\* fmt's "{}" for an int: its decimal digits
Digit(d) == <<SubSeq("0123456789", d + 1, d + 1)>>
RECURSIVE Decimal(_)
Decimal(n) == IF n < 10 THEN Digit(n) ELSE Decimal(n \div 10) \o Digit(n % 10)

\* fmt::format_to(buf, "[{}:{}] ", filename, line)
Prefix(path, line) ==
    <<"[">> \o Filename(path) \o <<":">> \o Decimal(line) \o <<"]", " ">>

\* the values a statement appends: C strings (one of them null) and ints
Values ==
    { [kind |-> "str", s |-> <<"a">>], [kind |-> "str", s |-> <<"/", "a">>],
      [kind |-> "null", s |-> <<>>], [kind |-> "int", n |-> 35] }

\* append(const char*): nothing for null; append_impl: fmt's "{}"
Appended(v) ==
    CASE v.kind = "null" -> <<>>
      [] v.kind = "str" -> v.s
      [] v.kind = "int" -> Decimal(v.n)

VARIABLES
    opts,            \* state.opts
    initialized,     \* state.initialized
    logger,          \* state.logger: 0 (null) or the session that built it
    mtx,             \* state.mtx: 0 (free) or the thread holding it
    default_logger,  \* spdlog's default logger: 0 (none) or its session
    level,           \* the logger's level (spdlog::level)
    eng,             \* the logger's mode: async, console, mt sinks, capacity
    pool,            \* the thread pool: 0 (none) or its session
    terminating,     \* the pool has been told to terminate
    queue,           \* the pool's bounded queue
    worker,          \* each worker: state and the message in hand
    file,            \* records written to the current log file, in order
    flushed,         \* how many of them are flushed to disk
    fileOpen,        \* the file sink is open
    oldFiles,        \* records in the files of earlier sessions
    console,         \* records written to standard output, in order
    fname,           \* the file name handed to the file sink: dir, program, time
    max_size,        \* the file sink's rotation threshold
    curSize,         \* bytes in the file the sink writes to
    closed,          \* sizes of the rotated files: closed[i] is <name>.<i>
    now,             \* the system clock
    stderr,          \* the last line written to standard error
    proc,            \* "running", "aborted" (std::abort) or "crashed"
    fatalRec,        \* the record whose FATAL statement aborted
    session,         \* number of engines built so far
    pc,              \* where each thread is
    lvl,             \* impl_->lvl, or the level passed to SetLogLevel
    arg,             \* the options passed to Init
    tgt,             \* the logger a log call works on
    begin,           \* history: records accepted when the log call began
    nLog,            \* statements issued by each thread
    len,             \* length of the buffer each statement has built
    submitted,       \* history: records accepted by the engine, in order
    pendingAtShutdown, \* history: records pending when Shutdown began
    g_glog_inited,   \* glog backend: g_glog_inited
    FLAGS_minloglevel,      \* glog backend: the flags Init and SetLogLevel set
    FLAGS_log_dir,
    FLAGS_max_log_size,
    FLAGS_alsologtostderr,
    glog_handler,    \* glog backend: the failure signal handler is installed
    glog_stderr,     \* glog backend: the last line Init wrote to standard error
    glog_set,        \* history: the level of the latest SetLogLevel that took effect
    glog_ret,        \* the value the latest GetLogLevel call returned
    glog_init,       \* history: the latest Init call: took effect, coredump option,
                     \* calls of InstallFailureSignalHandler it made
    sinkMtx,         \* each sink's mutex: 0 (free) or the writer holding it
    cur,             \* bytes of its record each writer has put out so far
    bytes,           \* the bytes on each destination, each tagged with its record
    impl             \* a builder's impl_: file, line, buf (and the values appended)

vars == <<opts, initialized, logger, mtx, default_logger, level, eng, pool,
          terminating, queue, worker, file, flushed, fileOpen, oldFiles,
          console, fname, max_size, curSize, closed, now, stderr, proc,
          fatalRec, session, pc, lvl, arg, tgt, begin, nLog, len, submitted,
          pendingAtShutdown, g_glog_inited, FLAGS_minloglevel, FLAGS_log_dir,
          FLAGS_max_log_size, FLAGS_alsologtostderr, glog_handler, glog_stderr,
          glog_set, glog_ret, glog_init, sinkMtx, cur, bytes,
          impl>>

stateVars == <<opts, initialized, logger, mtx>>
engineVars == <<default_logger, level, eng, pool, terminating, queue, worker>>
sinkVars == <<file, flushed, fileOpen, oldFiles, console>>
rotVars == <<fname, max_size, curSize, closed>>
histVars == <<submitted, pendingAtShutdown>>
threadVars == <<pc, lvl, arg, tgt, begin, nLog, len>>
glogVars == <<g_glog_inited, FLAGS_minloglevel, FLAGS_log_dir, FLAGS_max_log_size,
              FLAGS_alsologtostderr, glog_handler, glog_stderr, glog_set, glog_ret,
              glog_init>>
byteVars == <<sinkMtx, cur, bytes>>
builderVars == <<impl>>
\* the state of the spdlog backend
spdlogVars == <<stateVars, engineVars, sinkVars, rotVars, now, stderr, proc, fatalRec,
                session, threadVars, histVars, byteVars, builderVars>>

NoRec == <<0, 0, 0>>
Rec(t) == <<t, nLog[t], len[t]>>
Range(s) == {s[i] : i \in 1..Len(s)}

\* the file name Init builds: <dir>/<program>/<program>_<time>.log
NoFile == [dir |-> "", program |-> "", time |-> 0]
BaseLogDir(o) == IF o.log_dir = "" THEN "~/.my_log" ELSE o.log_dir
FileNameStale(o, time) == fname
FileName(o, time) == [dir |-> BaseLogDir(o), program |-> o.program_name, time |-> time]

\* rotating_file_sink_mt / stdout_color_sink_mt when opts.multi_thread, the _st
\* sinks (no mutex) otherwise
SinkMutexNever(o) == FALSE
SinkMutex(o) == o.multi_thread

\* the threshold handed to the rotating file sink
SinkMaxSizeDefault(o) == DefaultMaxLogSize
SinkMaxSize(o) == o.max_log_size

NoEngine == [async |-> FALSE, console |-> FALSE, mt |-> FALSE, cap |-> 0]

\* lines on standard error
NoLine == [kind |-> "none", rec |-> NoRec]
RecordLineLost(r) == NoLine
RecordLine(r) == [kind |-> "record", rec |-> r]
InitFailedSilent == NoLine
InitFailedLine == [kind |-> "spdlog init failed", rec |-> NoRec]
DirFailedLine == [kind |-> "Failed to create log directory", rec |-> NoRec]

\* ---------------------------------------------------------------- accessors
IsInitialized == initialized
ProgramName == opts.program_name
GetLogLevel == opts.log_level

\* std::lock_guard<std::mutex> lk(state.mtx): the caller waits for the mutex
LockAlwaysFree == TRUE
LockFree == mtx = 0

Init ==
    /\ opts = DefaultOptions
    /\ initialized = FALSE
    /\ logger = 0
    /\ mtx = 0
    /\ default_logger = 0
    /\ level = "info"
    /\ eng = NoEngine
    /\ pool = 0
    /\ terminating = FALSE
    /\ queue = <<>>
    /\ worker = [w \in Workers |-> [st |-> "none", msg |-> NoRec, begin |-> 0]]
    /\ file = <<>>
    /\ flushed = 0
    /\ fileOpen = FALSE
    /\ oldFiles = {}
    /\ console = <<>>
    /\ fname = NoFile
    /\ max_size = 0
    /\ curSize = 0
    /\ closed = <<>>
    /\ now = 0
    /\ stderr = NoLine
    /\ proc = "running"
    /\ fatalRec = NoRec
    /\ session = 0
    /\ pc = [t \in Threads |-> "idle"]
    /\ lvl = [t \in Threads |-> TRACE]
    /\ arg = [t \in Threads |-> DefaultOptions]
    /\ tgt = [t \in Threads |-> 0]
    /\ begin = [t \in Threads |-> 0]
    /\ nLog = [t \in Threads |-> 0]
    /\ len = [t \in Threads |-> 0]
    /\ submitted = <<>>
    /\ pendingAtShutdown = {}
    /\ g_glog_inited = FALSE
    /\ FLAGS_minloglevel = GLOG_INFO
    /\ FLAGS_log_dir = ""
    /\ FLAGS_max_log_size = 1800
    /\ FLAGS_alsologtostderr = FALSE
    /\ glog_handler = FALSE
    /\ glog_stderr = "none"
    /\ glog_set = <<>>
    /\ glog_ret = <<>>
    /\ glog_init = <<>>
    /\ sinkMtx = [d \in Destinations |-> 0]
    /\ cur = [i \in Writers |-> 0]
    /\ bytes = [d \in Destinations |-> <<>>]
    /\ impl = <<>>

Running == proc = "running"

\* ------------------------------------------------------- the delivery engine
LogMsg(r, b) == [type |-> "log", rec |-> r, begin |-> b]
TerminateMsg == [type |-> "terminate", rec |-> NoRec, begin |-> 0]
IdleWorker(s) == [st |-> s, msg |-> NoRec, begin |-> 0]

\* mpmc_blocking_queue under the three overflow policies
EnqueueEnabled(q, cap, policy) == policy = "block" => Len(q) < cap

EnqueueResult(q, m, cap, policy) ==
    IF Len(q) < cap THEN Append(q, m)
    ELSE IF policy = "overrun_oldest" THEN Append(Tail(q), m)
    ELSE q

PendingRecs ==
    {queue[i].rec : i \in {j \in 1..Len(queue) : queue[j].type = "log"}}
        \cup {worker[w].msg : w \in {v \in Workers : worker[v].st = "busy"}}

Written == Range(file) \cup oldFiles

\* rotating_file_sink: a record that would take the file past max_size goes to
\* a fresh file (unless the file is empty)
ShouldRotate(size, n, max) == size + n > max /\ size > 0

\* the full file becomes <name>.1, the older ones move up by one, and the sink
\* goes on in a fresh file under the name Init gave it
FileSinkIt(r) ==
    /\ file' = Append(file, r)
    /\ IF ShouldRotate(curSize, r[3], max_size)
       THEN /\ closed' = <<curSize>> \o closed
            /\ curSize' = r[3]
       ELSE /\ curSize' = curSize + r[3]
            /\ UNCHANGED closed

\* the names on disk: the sink writes to the name Init built, the i-th rotated
\* file carries that name with the number i
CurrentName == [base |-> fname, number |-> 0]
ClosedName(i) == [base |-> fname, number |-> i]

\* the worker thread takes the next message; a terminate message ends it
WorkerDequeue(w) ==
    /\ Running
    /\ UNCHANGED <<glogVars, byteVars, builderVars>>
    /\ UNCHANGED <<rotVars, now>>
    /\ pool # 0
    /\ worker[w].st = "idle"
    /\ queue # <<>>
    /\ IF Head(queue).type = "terminate"
       THEN /\ worker' = [worker EXCEPT ![w] = IdleWorker("exited")]
            /\ UNCHANGED queue
       ELSE /\ worker' = [worker EXCEPT ![w] = [st |-> "busy", msg |-> Head(queue).rec,
                                                begin |-> Head(queue).begin]]
            /\ queue' = Tail(queue)
    /\ UNCHANGED <<stateVars, default_logger, level, eng, pool, terminating, sinkVars,
                   stderr, proc, fatalRec, session, threadVars, histVars>>

\* the worker thread hands the message to every sink
WorkerWrite(w) ==
    /\ Running
    /\ UNCHANGED <<glogVars, byteVars, builderVars>>
    /\ UNCHANGED <<fname, max_size, now>>
    /\ worker[w].st = "busy"
    /\ FileSinkIt(worker[w].msg)
    /\ console' = IF eng.console THEN Append(console, worker[w].msg) ELSE console
    /\ worker' = [worker EXCEPT ![w] = IdleWorker("idle")]
    /\ UNCHANGED <<stateVars, default_logger, level, eng, pool, terminating, queue,
                   flushed, fileOpen, oldFiles, stderr, proc, fatalRec, session,
                   threadVars, histVars>>

\* --------------------------------------------------------- FastLogStream
\* the statement is over: control is back in the caller
Return(t) ==
    /\ pc' = [pc EXCEPT ![t] = "idle"]
    /\ lvl' = [lvl EXCEPT ![t] = TRACE]
    /\ tgt' = [tgt EXCEPT ![t] = 0]
    /\ begin' = [begin EXCEPT ![t] = 0]
    /\ len' = [len EXCEPT ![t] = 0]

\* after spdlog::log: "For FATAL, abort"
AfterLog(t) ==
    IF lvl[t] = FATAL
    THEN /\ pc' = [pc EXCEPT ![t] = "fatal_flush"]
         /\ tgt' = [tgt EXCEPT ![t] = 0]
         /\ begin' = [begin EXCEPT ![t] = 0]
         /\ UNCHANGED <<lvl, len>>
    ELSE Return(t)

\* statements issued so far, by all threads
RECURSIVE SumLogs(_)
SumLogs(T) ==
    IF T = {} THEN 0
    ELSE LET x == CHOOSE y \in T : TRUE IN nLog[x] + SumLogs(T \ {x})

TotalLogs == SumLogs(Threads)

\* LOG(level): the constructor builds the record
LogCtor(t, l, n) ==
    /\ Running
    /\ UNCHANGED <<glogVars, byteVars, builderVars>>
    /\ UNCHANGED <<rotVars, now>>
    /\ pc[t] = "idle"
    /\ nLog[t] < MaxLogs
    /\ TotalLogs < MaxTotalLogs
    /\ nLog' = [nLog EXCEPT ![t] = @ + 1]
    /\ pc' = [pc EXCEPT ![t] = "built"]
    /\ lvl' = [lvl EXCEPT ![t] = l]
    /\ len' = [len EXCEPT ![t] = n]
    /\ UNCHANGED <<stateVars, engineVars, sinkVars, stderr, proc, fatalRec,
                   session, arg, tgt, begin, histVars>>

\* the destructor reads state.initialized (no lock); uninitialized: stderr
LogDtor(t) ==
    /\ Running
    /\ UNCHANGED <<glogVars, byteVars, builderVars>>
    /\ UNCHANGED <<rotVars, now>>
    /\ pc[t] = "built"
    /\ IF ~initialized
       THEN /\ stderr' = RecordLine(Rec(t))
            /\ Return(t)
       ELSE /\ pc' = [pc EXCEPT ![t] = "log"]
            /\ UNCHANGED <<stderr, lvl, tgt, begin, len>>
    /\ UNCHANGED <<stateVars, engineVars, sinkVars, proc, fatalRec, session,
                   arg, nLog, histVars>>

\* a call into an engine that Shutdown has torn down: the process dies or the
\* record is lost
Stale(t, outcomes) ==
    \E oc \in outcomes :
        IF oc = "crash"
        THEN /\ proc' = "crashed"
             /\ UNCHANGED <<pc, lvl, tgt, begin, len>>
        ELSE /\ AfterLog(t)
             /\ UNCHANGED proc

\* spdlog::log(sl, s): the default logger filters by its level
LogCall(t) ==
    /\ Running
    /\ UNCHANGED <<glogVars, byteVars, builderVars>>
    /\ UNCHANGED <<rotVars, now>>
    /\ pc[t] = "log"
    /\ IF default_logger = 0
       THEN Stale(t, {"crash", "drop"})
       ELSE /\ UNCHANGED proc
            /\ IF should_log(MsgSpdlogLevel(lvl[t]), level)
               THEN /\ pc' = [pc EXCEPT ![t] = IF eng.async THEN "enqueue" ELSE "sink"]
                    /\ tgt' = [tgt EXCEPT ![t] = default_logger]
                    /\ begin' = [begin EXCEPT ![t] = Len(submitted)]
                    /\ UNCHANGED <<lvl, len>>
               ELSE AfterLog(t)
    /\ UNCHANGED <<stateVars, engineVars, sinkVars, stderr, fatalRec, session,
                   arg, nLog, histVars>>

\* async logger: post the record to the thread pool's queue
Enqueue(t) ==
    /\ Running
    /\ UNCHANGED <<glogVars, byteVars, builderVars>>
    /\ UNCHANGED <<rotVars, now>>
    /\ pc[t] = "enqueue"
    /\ IF pool # tgt[t] \/ terminating
       THEN /\ Stale(t, IF logger # tgt[t] THEN {"crash", "drop"} ELSE {"drop"})
            /\ UNCHANGED <<queue, submitted>>
       ELSE /\ EnqueueEnabled(queue, eng.cap, OverflowPolicy)
            /\ queue' = EnqueueResult(queue, LogMsg(Rec(t), begin[t]), eng.cap,
                                      OverflowPolicy)
            /\ submitted' = Append(submitted, Rec(t))
            /\ AfterLog(t)
            /\ UNCHANGED proc
    /\ UNCHANGED <<stateVars, default_logger, level, eng, pool, terminating, worker,
                   sinkVars, stderr, fatalRec, session, arg, nLog, pendingAtShutdown>>

\* synchronous logger: the caller writes to the file sink ...
SinkWrite(t) ==
    /\ Running
    /\ UNCHANGED <<glogVars, byteVars, builderVars>>
    /\ UNCHANGED <<fname, max_size, now>>
    /\ pc[t] = "sink"
    /\ IF logger # tgt[t] \/ ~fileOpen
       THEN /\ Stale(t, {"crash", "drop"})
            /\ UNCHANGED <<file, curSize, closed, submitted>>
       ELSE /\ FileSinkIt(Rec(t))
            /\ UNCHANGED proc
            /\ IF eng.console
               THEN /\ pc' = [pc EXCEPT ![t] = "sink_console"]
                    /\ UNCHANGED <<lvl, tgt, begin, len, submitted>>
               ELSE /\ submitted' = Append(submitted, Rec(t))
                    /\ AfterLog(t)
    /\ UNCHANGED <<stateVars, engineVars, flushed, fileOpen, oldFiles, console, stderr,
                   fatalRec, session, arg, nLog, pendingAtShutdown>>

\* ... and then to the console sink
SinkWriteConsole(t) ==
    /\ Running
    /\ UNCHANGED <<glogVars, byteVars, builderVars>>
    /\ UNCHANGED <<rotVars, now>>
    /\ pc[t] = "sink_console"
    /\ console' = Append(console, Rec(t))
    /\ submitted' = Append(submitted, Rec(t))
    /\ AfterLog(t)
    /\ UNCHANGED <<stateVars, engineVars, file, flushed, fileOpen, oldFiles, stderr,
                   proc, fatalRec, session, arg, nLog, pendingAtShutdown>>

\* spdlog::default_logger()->flush()
FatalFlush(t) ==
    /\ Running
    /\ UNCHANGED <<glogVars, byteVars, builderVars>>
    /\ UNCHANGED <<rotVars, now>>
    /\ pc[t] = "fatal_flush"
    /\ IF default_logger = 0
       THEN \E oc \in {"crash", "go"} :
                /\ proc' = IF oc = "crash" THEN "crashed" ELSE proc
                /\ pc' = IF oc = "crash" THEN pc ELSE [pc EXCEPT ![t] = "fatal_abort"]
                /\ UNCHANGED flushed
       ELSE /\ flushed' = Len(file)
            /\ pc' = [pc EXCEPT ![t] = "fatal_abort"]
            /\ UNCHANGED proc
    /\ UNCHANGED <<stateVars, engineVars, file, fileOpen, oldFiles, console, stderr,
                   fatalRec, session, lvl, arg, tgt, begin, nLog, len, histVars>>

\* sleep_for(50ms); std::abort()
FatalAbort(t) ==
    /\ Running
    /\ UNCHANGED <<glogVars, byteVars, builderVars>>
    /\ UNCHANGED <<rotVars, now>>
    /\ pc[t] = "fatal_abort"
    /\ proc' = "aborted"
    /\ fatalRec' = Rec(t)
    /\ UNCHANGED <<stateVars, engineVars, sinkVars, stderr, session, threadVars,
                   histVars>>

\* ---------------------------------------------------------------- Logger
\* a thread calls Logger::Init(o)
InitCall(t, o) ==
    /\ Running
    /\ UNCHANGED <<glogVars, byteVars, builderVars>>
    /\ UNCHANGED <<rotVars, now>>
    /\ pc[t] = "idle"
    /\ session < MaxSessions
    /\ pc' = [pc EXCEPT ![t] = "init"]
    /\ arg' = [arg EXCEPT ![t] = o]
    /\ UNCHANGED <<stateVars, engineVars, sinkVars, stderr, proc, fatalRec,
                   session, lvl, tgt, begin, nLog, len, histVars>>

\* a slip: the options are stored before the initialized test
InitEnterStoreFirst(t) ==
    /\ Running
    /\ UNCHANGED <<glogVars, byteVars, builderVars>>
    /\ UNCHANGED <<rotVars, now>>
    /\ pc[t] = "init"
    /\ LockFree
    /\ opts' = arg[t]
    /\ IF initialized
       THEN /\ pc' = [pc EXCEPT ![t] = "idle"]
            /\ arg' = [arg EXCEPT ![t] = DefaultOptions]
            /\ UNCHANGED mtx
       ELSE /\ mtx' = t
            /\ pc' = [pc EXCEPT ![t] = "init_build"]
            /\ UNCHANGED arg
    /\ UNCHANGED <<initialized, logger, engineVars, sinkVars, stderr, proc,
                   fatalRec, session, lvl, tgt, begin, nLog, len, histVars>>

\* Init takes the mutex; "if (state.initialized) return; state.opts = opts;"
InitEnter(t) ==
    /\ Running
    /\ UNCHANGED <<glogVars, byteVars, builderVars>>
    /\ UNCHANGED <<rotVars, now>>
    /\ pc[t] = "init"
    /\ LockFree
    /\ IF initialized
       THEN /\ pc' = [pc EXCEPT ![t] = "idle"]
            /\ arg' = [arg EXCEPT ![t] = DefaultOptions]
            /\ UNCHANGED <<opts, mtx>>
       ELSE /\ opts' = arg[t]
            /\ mtx' = t
            /\ pc' = [pc EXCEPT ![t] = "init_build"]
            /\ UNCHANGED arg
    /\ UNCHANGED <<initialized, logger, engineVars, sinkVars, stderr, proc,
                   fatalRec, session, lvl, tgt, begin, nLog, len, histVars>>

\* the try block: sinks, thread pool, logger, level; or the backend throws
InitBuild(t) ==
    /\ Running
    /\ UNCHANGED <<glogVars, byteVars, builderVars>>
    /\ UNCHANGED now
    /\ pc[t] = "init_build"
    /\ pc' = [pc EXCEPT ![t] = "idle"]
    /\ arg' = [arg EXCEPT ![t] = DefaultOptions]
    /\ mtx' = 0
    /\ \E dirOk \in BOOLEAN, ok \in BOOLEAN :
        IF ok
        THEN /\ session' = session + 1
             /\ logger' = session + 1
             /\ default_logger' = session + 1
             /\ eng' = [async |-> arg[t].async_mode, console |-> arg[t].enable_console,
                         mt |-> SinkMutex(arg[t]), cap |-> QueueCapacity(arg[t])]
             /\ level' = InitSpdlogLevel(arg[t].log_level)
             /\ pool' = IF arg[t].async_mode THEN session + 1 ELSE pool
             /\ terminating' = FALSE
             /\ queue' = <<>>
             /\ worker' = [w \in Workers |->
                              IdleWorker(IF arg[t].async_mode THEN "idle" ELSE "none")]
             /\ oldFiles' = oldFiles \cup Range(file)
             /\ file' = <<>>
             /\ flushed' = 0
             /\ fileOpen' = TRUE
             /\ fname' = FileName(arg[t], now)
             /\ max_size' = SinkMaxSize(arg[t])
             /\ curSize' = 0
             /\ closed' = <<>>
             /\ initialized' = TRUE
             /\ stderr' = IF dirOk THEN stderr ELSE DirFailedLine
             /\ UNCHANGED console
        ELSE /\ stderr' = InitFailedLine
             /\ UNCHANGED <<initialized, logger, engineVars, sinkVars, rotVars,
                            session>>
    /\ UNCHANGED <<opts, proc, fatalRec, lvl, tgt, begin, nLog, len, histVars>>

\* a thread calls Logger::Shutdown()
ShutdownCall(t) ==
    /\ Running
    /\ UNCHANGED <<glogVars, byteVars, builderVars>>
    /\ UNCHANGED <<rotVars, now>>
    /\ pc[t] = "idle"
    /\ session <= MaxShutdown
    /\ pc' = [pc EXCEPT ![t] = "shutdown"]
    /\ UNCHANGED <<stateVars, engineVars, sinkVars, stderr, proc, fatalRec,
                   session, lvl, arg, tgt, begin, nLog, len, histVars>>

\* a slip: Shutdown without the test of the initialized flag
ShutdownEnterNoTest(t) ==
    /\ Running
    /\ UNCHANGED <<glogVars, byteVars, builderVars>>
    /\ UNCHANGED <<rotVars, now>>
    /\ pc[t] = "shutdown"
    /\ LockFree
    /\ mtx' = t
    /\ default_logger' = 0
    /\ pendingAtShutdown' = PendingRecs
    /\ pc' = [pc EXCEPT ![t] = IF eng.async THEN "shutdown_post" ELSE "shutdown_join"]
    /\ UNCHANGED <<opts, initialized, logger, level, eng, pool, terminating, queue,
                   worker, sinkVars, stderr, proc, fatalRec, session, lvl, arg,
                   tgt, begin, nLog, len, submitted>>

\* Shutdown takes the mutex; "if (!state.initialized) return;" then
\* spdlog::shutdown() begins: the registry drops the default logger
ShutdownEnter(t) ==
    /\ Running
    /\ UNCHANGED <<glogVars, byteVars, builderVars>>
    /\ UNCHANGED <<rotVars, now>>
    /\ pc[t] = "shutdown"
    /\ LockFree
    /\ IF ~initialized
       THEN /\ pc' = [pc EXCEPT ![t] = "idle"]
            /\ UNCHANGED <<mtx, default_logger, pendingAtShutdown>>
       ELSE /\ mtx' = t
            /\ default_logger' = 0
            /\ pendingAtShutdown' = PendingRecs
            /\ pc' = [pc EXCEPT ![t] = IF eng.async THEN "shutdown_post"
                                                    ELSE "shutdown_join"]
    /\ UNCHANGED <<opts, initialized, logger, level, eng, pool, terminating, queue,
                   worker, sinkVars, stderr, proc, fatalRec, session, lvl, arg,
                   tgt, begin, nLog, len, submitted>>

\* the thread pool is destroyed: a terminate message follows the queued records
ShutdownPost(t) ==
    /\ Running
    /\ UNCHANGED <<glogVars, byteVars, builderVars>>
    /\ UNCHANGED <<rotVars, now>>
    /\ pc[t] = "shutdown_post"
    /\ EnqueueEnabled(queue, eng.cap, "block")
    /\ queue' = EnqueueResult(queue, TerminateMsg, eng.cap, "block")
    /\ terminating' = TRUE
    /\ pc' = [pc EXCEPT ![t] = "shutdown_join"]
    /\ UNCHANGED <<stateVars, default_logger, level, eng, pool, worker, sinkVars,
                   stderr, proc, fatalRec, session, lvl, arg, tgt, begin, nLog, len,
                   histVars>>

\* spdlog::shutdown() ends: the worker has been joined and the pool is gone, the
\* sinks are flushed and closed
ShutdownDone ==
    /\ \A w \in Workers : worker[w].st \in {"none", "exited"}
    /\ pool' = 0
    /\ terminating' = FALSE
    /\ queue' = <<>>
    /\ worker' = [w \in Workers |-> IdleWorker("none")]
    /\ flushed' = Len(file)
    /\ fileOpen' = FALSE

\* a slip: the initialized flag is left set
ShutdownJoinKeepFlag(t) ==
    /\ Running
    /\ UNCHANGED <<glogVars, byteVars, builderVars>>
    /\ UNCHANGED <<rotVars, now>>
    /\ pc[t] = "shutdown_join"
    /\ ShutdownDone
    /\ mtx' = 0
    /\ pendingAtShutdown' = {}
    /\ pc' = [pc EXCEPT ![t] = "idle"]
    /\ UNCHANGED <<opts, initialized, logger, default_logger, level, eng, file, oldFiles,
                   console, stderr, proc, fatalRec, session, lvl, arg, tgt, begin,
                   nLog, len, submitted>>

\* spdlog::shutdown() returns; "state.initialized = false"
ShutdownJoin(t) ==
    /\ Running
    /\ UNCHANGED <<glogVars, byteVars, builderVars>>
    /\ UNCHANGED <<rotVars, now>>
    /\ pc[t] = "shutdown_join"
    /\ ShutdownDone
    /\ initialized' = FALSE
    /\ mtx' = 0
    /\ pendingAtShutdown' = {}
    /\ pc' = [pc EXCEPT ![t] = "idle"]
    /\ UNCHANGED <<opts, logger, default_logger, level, eng, file, oldFiles, console,
                   stderr, proc, fatalRec, session, lvl, arg, tgt, begin, nLog, len,
                   submitted>>

\* a thread calls Logger::SetLogLevel(l)
SetLogLevelCall(t, l) ==
    /\ Running
    /\ UNCHANGED <<glogVars, byteVars, builderVars>>
    /\ UNCHANGED <<rotVars, now>>
    /\ pc[t] = "idle"
    /\ pc' = [pc EXCEPT ![t] = "set_level"]
    /\ lvl' = [lvl EXCEPT ![t] = l]
    /\ UNCHANGED <<stateVars, engineVars, sinkVars, stderr, proc, fatalRec,
                   session, arg, tgt, begin, nLog, len, histVars>>

\* a slip: SetLogLevel without the test of the initialized flag
SetLogLevelNoTest(t) ==
    /\ Running
    /\ UNCHANGED <<glogVars, byteVars, builderVars>>
    /\ UNCHANGED <<rotVars, now>>
    /\ pc[t] = "set_level"
    /\ LockFree
    /\ opts' = [opts EXCEPT !.log_level = lvl[t]]
    /\ level' = IF logger # 0 THEN SetSpdlogLevel(lvl[t]) ELSE level
    /\ Return(t)
    /\ UNCHANGED <<initialized, logger, mtx, default_logger, eng, pool, terminating,
                   queue, worker, sinkVars, stderr, proc, fatalRec, session, arg,
                   nLog, histVars>>

\* SetLogLevel, the whole body under the mutex
SetLogLevel(t) ==
    /\ Running
    /\ UNCHANGED <<glogVars, byteVars, builderVars>>
    /\ UNCHANGED <<rotVars, now>>
    /\ pc[t] = "set_level"
    /\ LockFree
    /\ IF ~initialized
       THEN UNCHANGED <<opts, level>>
       ELSE /\ opts' = [opts EXCEPT !.log_level = lvl[t]]
            /\ level' = IF logger # 0 THEN SetSpdlogLevel(lvl[t]) ELSE level
    /\ Return(t)
    /\ UNCHANGED <<initialized, logger, mtx, default_logger, eng, pool, terminating,
                   queue, worker, sinkVars, stderr, proc, fatalRec, session, arg,
                   nLog, histVars>>

\* the system clock moves on
Tick ==
    /\ Running
    /\ UNCHANGED <<glogVars, byteVars, builderVars>>
    /\ now < MaxTime
    /\ now' = now + 1
    /\ UNCHANGED <<stateVars, engineVars, sinkVars, rotVars, stderr, proc, fatalRec,
                   session, threadVars, histVars>>

\* ------------------------------------------------- the sinks, byte by byte
\* base_sink<Mutex>::log: lock the sink's mutex (the _mt sinks), put out the
\* record, unlock.  Writer id puts the next byte of record r on destination d;
\* first: it is the record's first byte there, last: its last one.
PutByte(d, id, r, first, last) ==
    /\ (first /\ eng.mt) => sinkMtx[d] = 0
    /\ bytes' = [bytes EXCEPT ![d] = Append(@, <<r[1], r[2]>>)]
    /\ sinkMtx' = IF eng.mt THEN [sinkMtx EXCEPT ![d] = IF last THEN 0 ELSE id]
                  ELSE sinkMtx

\* synchronous logger: the caller puts the next byte of its record in the file;
\* with the last byte the file sink is done (SinkWrite)
SinkWriteBytes(t) ==
    /\ Running
    /\ UNCHANGED <<glogVars, builderVars>>
    /\ UNCHANGED <<fname, max_size, now>>
    /\ pc[t] = "sink"
    /\ IF logger # tgt[t] \/ ~fileOpen
       THEN /\ Stale(t, {"crash", "drop"})
            /\ UNCHANGED <<file, curSize, closed, submitted, byteVars>>
       ELSE /\ PutByte("file", t, Rec(t), cur[t] = 0, cur[t] + 1 = len[t])
            /\ UNCHANGED proc
            /\ IF cur[t] + 1 < len[t]
               THEN /\ cur' = [cur EXCEPT ![t] = @ + 1]
                    /\ UNCHANGED <<file, curSize, closed, submitted, pc, lvl, tgt,
                                   begin, len>>
               ELSE /\ cur' = [cur EXCEPT ![t] = 0]
                    /\ FileSinkIt(Rec(t))
                    /\ IF eng.console
                       THEN /\ pc' = [pc EXCEPT ![t] = "sink_console"]
                            /\ UNCHANGED <<lvl, tgt, begin, len, submitted>>
                       ELSE /\ submitted' = Append(submitted, Rec(t))
                            /\ AfterLog(t)
    /\ UNCHANGED <<stateVars, engineVars, flushed, fileOpen, oldFiles, console, stderr,
                   fatalRec, session, arg, nLog, pendingAtShutdown>>

\* ... and then, byte by byte, on the console (SinkWriteConsole)
SinkWriteConsoleBytes(t) ==
    /\ Running
    /\ UNCHANGED <<glogVars, builderVars>>
    /\ UNCHANGED <<rotVars, now>>
    /\ pc[t] = "sink_console"
    /\ PutByte("console", t, Rec(t), cur[t] = 0, cur[t] + 1 = len[t])
    /\ IF cur[t] + 1 < len[t]
       THEN /\ cur' = [cur EXCEPT ![t] = @ + 1]
            /\ UNCHANGED <<console, submitted, pc, lvl, tgt, begin, len>>
       ELSE /\ cur' = [cur EXCEPT ![t] = 0]
            /\ console' = Append(console, Rec(t))
            /\ submitted' = Append(submitted, Rec(t))
            /\ AfterLog(t)
    /\ UNCHANGED <<stateVars, engineVars, file, flushed, fileOpen, oldFiles, stderr,
                   proc, fatalRec, session, arg, nLog, pendingAtShutdown>>

\* the worker thread puts the next byte of the message in hand: first all of
\* it in the file, then (enable_console) all of it on the console (WorkerWrite)
WorkerWriteBytes(w) ==
    /\ Running
    /\ UNCHANGED <<glogVars, builderVars>>
    /\ UNCHANGED <<fname, max_size, now>>
    /\ worker[w].st = "busy"
    /\ \E r \in {worker[w].msg}, id \in {WorkerId(w)} :
          /\ IF cur[id] < r[3]
             THEN /\ PutByte("file", id, r, cur[id] = 0, cur[id] + 1 = r[3])
                  /\ IF cur[id] + 1 = r[3]
                     THEN FileSinkIt(r)
                     ELSE UNCHANGED <<file, curSize, closed>>
                  /\ UNCHANGED console
             ELSE /\ PutByte("console", id, r, cur[id] = r[3], cur[id] + 1 = 2 * r[3])
                  /\ console' = IF cur[id] + 1 = 2 * r[3] THEN Append(console, r)
                                ELSE console
                  /\ UNCHANGED <<file, curSize, closed>>
          /\ IF cur[id] + 1 = (IF eng.console THEN 2 * r[3] ELSE r[3])
             THEN /\ cur' = [cur EXCEPT ![id] = 0]
                  /\ worker' = [worker EXCEPT ![w] = IdleWorker("idle")]
             ELSE /\ cur' = [cur EXCEPT ![id] = @ + 1]
                  /\ UNCHANGED worker
    /\ UNCHANGED <<stateVars, default_logger, level, eng, pool, terminating, queue,
                   flushed, fileOpen, oldFiles, stderr, proc, fatalRec, session,
                   threadVars, histVars>>

\* ------------------------------------------ FastLogStream: the buffer
\* the variables the builder's buffer operations leave alone
notBuilderVars == <<stateVars, engineVars, sinkVars, rotVars, now, stderr, proc,
                    fatalRec, session, threadVars, histVars, byteVars, glogVars>>

\* FastLogStream(file, line, lvl): the buffer starts with the prefix
BuilderCtor(path, line) ==
    /\ impl = <<>>
    /\ impl' = <<[file |-> path, line |-> line, buf |-> Prefix(path, line),
                  vals |-> <<>>]>>
    /\ UNCHANGED notBuilderVars

\* operator<< : append / append_impl
BuilderAppend(v) ==
    /\ impl # <<>>
    /\ Len(impl[1].vals) < MaxAppends
    /\ impl' = <<[impl[1] EXCEPT !.buf = @ \o Appended(v), !.vals = Append(@, v)]>>
    /\ UNCHANGED notBuilderVars

\* the end of the statement: delete impl_
BuilderDtor ==
    /\ impl # <<>>
    /\ impl' = <<>>
    /\ UNCHANGED notBuilderVars

\* ------------------------------------------------------------ glog backend
\* every operation runs under g_glog_mtx from its first line to its last
GlogInit(o) ==
    /\ glog_init' = <<[effect |-> ~g_glog_inited, coredump |-> o.enable_coredump_log,
                       calls |-> IF g_glog_inited THEN 0 ELSE InstallCalls(o)]>>
    /\ IF g_glog_inited
       THEN UNCHANGED <<g_glog_inited, FLAGS_minloglevel, FLAGS_log_dir,
                        FLAGS_max_log_size, FLAGS_alsologtostderr, glog_handler,
                        glog_stderr>>
       ELSE /\ \E dirOk \in BOOLEAN :
                  glog_stderr' = IF dirOk THEN glog_stderr
                                 ELSE "Failed to create log directory"
            /\ FLAGS_log_dir' = BaseLogDir(o) \o "/" \o o.program_name
            /\ FLAGS_max_log_size' = GlogMaxLogSize(o)
            /\ FLAGS_minloglevel' = GlogInitLevel(o.log_level)
            /\ FLAGS_alsologtostderr' = o.enable_console
            /\ glog_handler' = (glog_handler \/ InstallCalls(o) > 0)
            /\ g_glog_inited' = TRUE
    /\ UNCHANGED <<glog_set, glog_ret, spdlogVars>>

GlogShutdown ==
    /\ IF ~g_glog_inited
       THEN UNCHANGED <<g_glog_inited, glog_set>>
       ELSE /\ g_glog_inited' = FALSE
            /\ glog_set' = <<>>
    /\ UNCHANGED <<FLAGS_minloglevel, FLAGS_log_dir, FLAGS_max_log_size,
                   FLAGS_alsologtostderr, glog_handler, glog_stderr, glog_ret,
                   glog_init, spdlogVars>>

GlogSetLogLevel(l) ==
    /\ IF ~g_glog_inited
       THEN UNCHANGED <<FLAGS_minloglevel, glog_set>>
       ELSE /\ FLAGS_minloglevel' = GlogSetLevel(l)
            /\ glog_set' = <<l>>
    /\ UNCHANGED <<g_glog_inited, FLAGS_log_dir, FLAGS_max_log_size,
                   FLAGS_alsologtostderr, glog_handler, glog_stderr, glog_ret,
                   glog_init, spdlogVars>>

GlogGetLogLevel ==
    /\ glog_ret' = <<GlogGetLevel(g_glog_inited, FLAGS_minloglevel)>>
    /\ UNCHANGED <<g_glog_inited, FLAGS_minloglevel, FLAGS_log_dir,
                   FLAGS_max_log_size, FLAGS_alsologtostderr, glog_handler,
                   glog_stderr, glog_set, glog_init, spdlogVars>>

\* one step of the program, the callers' inputs drawn from the given sets;
\* each write to a sink is one step
Step(logThreads, logLevels, lengths, setLevels, options) ==
    \/ \E t \in logThreads, l \in logLevels, n \in lengths : LogCtor(t, l, n)
    \/ \E t \in Threads : LogDtor(t)
    \/ \E t \in Threads : LogCall(t)
    \/ \E t \in Threads : Enqueue(t)
    \/ \E t \in Threads : SinkWrite(t)
    \/ \E t \in Threads : SinkWriteConsole(t)
    \/ \E t \in Threads : FatalFlush(t)
    \/ \E t \in Threads : FatalAbort(t)
    \/ \E w \in Workers : WorkerDequeue(w)
    \/ \E w \in Workers : WorkerWrite(w)
    \/ \E t \in Threads, o \in options : InitCall(t, o)
    \/ \E t \in Threads : InitEnter(t)
    \/ \E t \in Threads : InitBuild(t)
    \/ \E t \in Threads : ShutdownCall(t)
    \/ \E t \in Threads : ShutdownEnter(t)
    \/ \E t \in Threads : ShutdownPost(t)
    \/ \E t \in Threads : ShutdownJoin(t)
    \/ \E t \in Threads, l \in setLevels : SetLogLevelCall(t, l)
    \/ \E t \in Threads : SetLogLevel(t)

Next == Step(Threads, {INFO, FATAL}, {1}, {ERROR}, OptionChoices)

Spec == Init /\ [][Next]_vars

\* one thread logs at each of the six levels, under each of the six minimum levels
NextLevels == Step({1}, LogLevels, {1}, LogLevels, OptionChoices)

SpecLevels == Init /\ [][NextLevels]_vars

\* small rotation thresholds, records of two lengths, and a clock that moves
NextRotate ==
    \/ Step({1}, {INFO, FATAL}, RecordLengths, {ERROR}, RotateOptions)
    \/ Tick

SpecRotate == Init /\ [][NextRotate]_vars

\* options for the three ways a record reaches the sinks: synchronous with _mt
\* sinks, synchronous with _st sinks, asynchronous
BytesOptions ==
    { [program_name |-> "app1", log_dir |-> "d1", enable_console |-> TRUE,
       async_mode |-> FALSE, multi_thread |-> TRUE, async_queue_size |-> 1,
       log_level |-> INFO, max_log_size |-> DefaultMaxLogSize],
      [program_name |-> "app2", log_dir |-> "d2", enable_console |-> TRUE,
       async_mode |-> FALSE, multi_thread |-> FALSE, async_queue_size |-> 1,
       log_level |-> INFO, max_log_size |-> DefaultMaxLogSize],
      [program_name |-> "app3", log_dir |-> "", enable_console |-> TRUE,
       async_mode |-> TRUE, multi_thread |-> FALSE, async_queue_size |-> 2,
       log_level |-> INFO, max_log_size |-> DefaultMaxLogSize] }

\* the length of the records written byte by byte
BytesLength == 2

\* concurrent producers in one session, each write to a sink byte by byte
NextBytes ==
    \/ \E t \in Threads : LogCtor(t, INFO, BytesLength)
    \/ \E t \in Threads : LogDtor(t)
    \/ \E t \in Threads : LogCall(t)
    \/ \E t \in Threads : Enqueue(t)
    \/ \E t \in Threads : SinkWriteBytes(t)
    \/ \E t \in Threads : SinkWriteConsoleBytes(t)
    \/ \E w \in Workers : WorkerDequeue(w)
    \/ \E w \in Workers : WorkerWriteBytes(w)
    \/ \E t \in Threads, o \in BytesOptions : InitCall(t, o)
    \/ \E t \in Threads : InitEnter(t)
    \/ \E t \in Threads : InitBuild(t)

SpecBytes == Init /\ [][NextBytes]_vars

\* one statement after another, each from some path and line, appending values
NextBuilder ==
    \/ \E path \in Paths, line \in Lines : BuilderCtor(path, line)
    \/ \E v \in Values : BuilderAppend(v)
    \/ BuilderDtor

SpecBuilder == Init /\ [][NextBuilder]_vars

\* the glog build
NextGlog ==
    \/ \E o \in GlogOptionChoices : GlogInit(o)
    \/ GlogShutdown
    \/ \E l \in LogLevels : GlogSetLogLevel(l)
    \/ GlogGetLogLevel

SpecGlog == Init /\ [][NextGlog]_vars

\* ------------------------------------------------------------------ claims
LogPcs == {"built", "log", "enqueue", "sink", "sink_console", "fatal_flush",
           "fatal_abort"}

\* the log call of thread t is accepted in this step: the record goes on to the
\* sinks (sync) or to the worker's queue (async)
Accepted(t) == pc[t] = "log" /\ pc'[t] \in {"enqueue", "sink"}

\* the log call of thread t ends in this step
LogCallEnds(t) == pc[t] = "log" /\ pc'[t] # "log"

\* C1: on an initialized logger (the engine is live when the statement reaches
\* it), a LOG(L) statement is handed on to the sinks iff L >= M, M being the
\* minimum level GetLogLevel() reports (set by Init or the latest SetLogLevel).
C1_DeliveredIffLevel ==
    [][\A t \in Threads :
          (LogCallEnds(t) /\ initialized /\ default_logger # 0)
              => (Accepted(t) <=> lvl[t] >= GetLogLevel)]_vars

\* C1 witness: the boundary case L = M = ERROR, a level only SetLogLevel sets here
C1_Witness ==
    \E t \in Threads :
        /\ pc[t] \in {"enqueue", "sink"}
        /\ lvl[t] = ERROR
        /\ GetLogLevel = ERROR
        /\ initialized

NoDuplicates(s) == \A i, j \in 1..Len(s) : s[i] = s[j] => i = j

\* C2 (as claimed): in asynchronous mode every record that passed the filter is
\* written to the sinks exactly once; in particular none is left unwritten when
\* the process has ended.
C2_AcceptedRecordsWritten ==
    /\ NoDuplicates(file)
    /\ Range(file) \cap oldFiles = {}
    /\ (proc = "aborted" /\ eng.async) => Range(submitted) \subseteq Written

PerThreadOrder(s) ==
    \A i, j \in 1..Len(s) : (i < j /\ s[i][1] = s[j][1]) => s[i][2] < s[j][2]

\* C3: in every sink the records of each thread appear in the order in which
\* that thread issued them.
C3_PerThreadOrder == PerThreadOrder(file) /\ PerThreadOrder(console)

\* C3 witness: two producers, the records of one around a record of the other,
\* written by the worker thread
C3_Witness ==
    /\ eng.async
    /\ \E i, j, k \in 1..Len(file) :
          i < j /\ j < k /\ file[i][1] = file[k][1] /\ file[i][1] # file[j][1]

\* history: what had been accepted when the submit of record r began
BeginOf(r) ==
    IF \E w \in Workers : worker[w].st = "busy" /\ worker[w].msg = r
    THEN (CHOOSE x \in {worker[w] : w \in Workers} : x.st = "busy" /\ x.msg = r).begin
    ELSE begin[r[1]]

AppendedTo(s, s2) == Len(s2) = Len(s) + 1

CompletedBefore(r) == {submitted[i] : i \in 1..BeginOf(r)}

\* C4: whenever a record B is written to a sink, every record A whose submit had
\* completed before the submit of B began has already been written (to the file
\* and, with it, to the console): the sinks hold the records in submit order.
C4_SubmitOrder ==
    [][/\ AppendedTo(file, file')
          => CompletedBefore(file'[Len(file')]) \subseteq Written
       /\ AppendedTo(console, console')
          => CompletedBefore(console'[Len(console')]) \subseteq Written]_vars

\* C4 witness: the worker holds a record of one thread whose submit began after
\* a record of another thread had been accepted
C4_Witness ==
    \E w \in Workers :
        /\ worker[w].st = "busy"
        /\ worker[w].begin >= 1
        /\ submitted[1][1] # worker[w].msg[1]

QueueFull == Len(queue) >= opts.async_queue_size

\* the async log call of thread t works on the live thread pool
Posting(t) == pc[t] = "enqueue" /\ pool = tgt[t] /\ ~terminating

\* C5: the queue never holds more than async_queue_size messages; a statement
\* that finds it full stays where it is, and a statement that goes on has put
\* its record at the end of the queue (no error, no discard).
C5_BoundedBlockingQueue ==
    /\ [](pool # 0 => Len(queue) <= opts.async_queue_size)
    /\ [][\A t \in Threads :
             /\ (Posting(t) /\ QueueFull)
                    => /\ pc'[t] = "enqueue"
                       /\ \A i \in 1..Len(queue') : queue'[i].rec # Rec(t)
             /\ (Posting(t) /\ pc'[t] # "enqueue")
                    => queue' = Append(queue, LogMsg(Rec(t), begin[t]))]_vars

\* C5 witness: a producer waits at a full queue
C5_Witness ==
    \E t \in Threads : Posting(t) /\ QueueFull /\ initialized /\ Len(queue) >= 1

C7_FatalNeverReturns ==
    [][\A t \in Threads :
          (pc[t] \in LogPcs /\ lvl[t] = FATAL) => pc'[t] # "idle"]_vars

\* C8 (as claimed): when a FATAL statement that the engine accepted aborts the
\* process, its record is in the flushed part of the file.
C8_FatalRecordFlushed ==
    (proc = "aborted" /\ fatalRec \in Range(submitted))
        => \E i \in 1..flushed : file[i] = fatalRec

\* C9: an Init that finds the logger initialized returns at once and changes
\* nothing: options, logger, engine, sinks, standard error.
C9_InitNoOpWhenInitialized ==
    [][\A t \in Threads :
          (pc[t] = "init" /\ pc'[t] # "init" /\ initialized)
              => /\ pc'[t] = "idle"
                 /\ GetLogLevel' = GetLogLevel
                 /\ ProgramName' = ProgramName
                 /\ UNCHANGED <<stateVars, engineVars, sinkVars, stderr, proc,
                                session>>]_vars

\* C9 witness: an Init with other options is about to run on an initialized logger
C9_Witness ==
    \E t \in Threads :
        pc[t] = "init" /\ initialized /\ mtx = 0 /\ arg[t] # opts
            /\ arg[t].log_level # GetLogLevel

\* the engine e is the one the options o describe
EngineMatches(e, o) ==
    /\ e.async = o.async_mode
    /\ e.console = o.enable_console
    /\ e.mt = o.multi_thread
    /\ e.cap = o.async_queue_size

\* C10: concurrent Init calls are serialized: at most one is in the try block;
\* an engine is built only on an uninitialized logger, by one call and from
\* that call's options, which are then the active ones; while the logger is
\* initialized the engine is the one the active options describe; and a call
\* returns with the logger initialized unless the backend threw.
C10_InitSerialized ==
    /\ [](Cardinality({t \in Threads : pc[t] = "init_build"}) <= 1)
    /\ [](initialized => (EngineMatches(eng, opts) /\ logger = session))
    /\ [][/\ session' # session
             => \E t \in Threads :
                   /\ pc[t] = "init_build" /\ pc'[t] = "idle"
                   /\ ~initialized /\ initialized'
                   /\ opts' = arg[t]
                   /\ EngineMatches(eng', arg[t])
                   /\ session' = session + 1
          /\ \A t \in Threads :
                (pc[t] \in {"init", "init_build"} /\ pc'[t] = "idle")
                    => (initialized' \/ stderr' = InitFailedLine)]_vars

\* C10 witness: one call is in the try block while another call, with other
\* options, waits for the mutex
C10_Witness ==
    \E t, u \in Threads :
        /\ pc[t] = "init_build"
        /\ pc[u] = "init"
        /\ arg[t] # arg[u]
        /\ mtx = t

\* the sinks and the filter are those the options o describe
SinksMatch(o) ==
    /\ fname.dir = BaseLogDir(o)
    /\ fname.program = o.program_name
    /\ max_size = o.max_log_size
    /\ level = LevelSwitch(o.log_level)

\* C11: an Init that succeeds, the first one or one after a Shutdown, leaves the
\* logger with exactly its own options: filter level, file sink (directory,
\* program, threshold), console and async settings, a fresh file and queue; it
\* finds no queue, worker or open file of an earlier session; and while the
\* logger is initialized, sinks and filter are those of the active options and
\* records reach the file only through the logger of the current session.
C11_ReinitReplaces ==
    /\ [](\A t \in Threads :
             pc[t] = "init_build"
                 => (queue = <<>> /\ ~fileOpen /\ pool = 0
                     /\ \A w \in Workers : worker[w].st = "none"))
    /\ [](initialized => (EngineMatches(eng, opts) /\ SinksMatch(opts)
                          /\ logger = session /\ (eng.async => pool = session)))
    /\ [][/\ \A t \in Threads :
                (pc[t] = "init_build" /\ initialized')
                    => \E o \in {arg[t]} :
                           /\ opts' = o
                           /\ EngineMatches(eng', o)
                           /\ SinksMatch(o)'
                           /\ fname' = FileName(o, now)
                           /\ file' = <<>> /\ curSize' = 0 /\ queue' = <<>>
                           /\ Range(file) \subseteq oldFiles'
          /\ \A t \in Threads :
                (pc[t] = "sink" /\ pc'[t] # "sink" /\ AppendedTo(file, file'))
                    => (tgt[t] = session /\ initialized)
          /\ \A t \in Threads :
                (pc[t] = "enqueue" /\ pc'[t] # "enqueue" /\ submitted' # submitted)
                    => (tgt[t] = session /\ pool = session)]_vars

\* C11 witness: the second session, built from other options than the first,
\* has written a record; the first session's records are in its old file
C11_Witness ==
    /\ session = 2
    /\ initialized
    /\ file # <<>>
    /\ oldFiles # {}
    /\ opts \in OptionChoices

\* C12: a Shutdown that finds the logger not initialized (never initialized, or
\* already shut down) returns at once and changes nothing: logger state, engine,
\* sinks, files, standard error; the process goes on.
C12_ShutdownIdempotent ==
    [][\A t \in Threads :
          (pc[t] = "shutdown" /\ pc'[t] # "shutdown" /\ ~initialized)
              => /\ pc'[t] = "idle"
                 /\ proc' = "running"
                 /\ UNCHANGED <<stateVars, engineVars, sinkVars, rotVars, stderr,
                                session, histVars>>]_vars

\* C12 witness: a second Shutdown is about to run after a completed one
C12_Witness ==
    \E t \in Threads :
        /\ pc[t] = "shutdown"
        /\ ~initialized
        /\ mtx = 0
        /\ session >= 1
        /\ ~fileOpen

\* C13: a log statement of any level whose destructor finds the logger not
\* initialized (before the first Init, after Shutdown, after a failed Init)
\* writes its buffer to standard error, hands nothing to the queue or the
\* sinks, and returns to the caller with the process running.
C13_StderrFallback ==
    [][\A t \in Threads :
          (pc[t] = "built" /\ pc'[t] # "built" /\ ~initialized)
              => /\ stderr'.kind = "record"
                 /\ stderr'.rec = Rec(t)
                 /\ pc'[t] = "idle"
                 /\ proc' = "running"
                 /\ UNCHANGED <<queue, worker, sinkVars, rotVars, submitted>>]_vars

\* C13 witness: after a Shutdown, a statement has gone to standard error and
\* returned
C13_Witness ==
    /\ ~initialized
    /\ session >= 1
    /\ stderr.kind = "record"
    /\ nLog[stderr.rec[1]] = stderr.rec[2]
    /\ pc[stderr.rec[1]] = "idle"
    /\ proc = "running"

\* C14 (as claimed): whenever the logger is not initialized, a GetLogLevel call
\* (it takes the mutex) returns the default level of LoggerOptions, ERROR.
C14_GetLevelDefault ==
    (~initialized /\ LockFree) => GetLogLevel = DefaultOptions.log_level

\* C15: a SetLogLevel that finds the logger not initialized returns at once and
\* changes nothing (stored options, the value of GetLogLevel, the engine's
\* level), and the Init that follows puts the level of its own options in force.
C15_SetLevelNoOpUninitialized ==
    [][/\ \A t \in Threads :
             (pc[t] = "set_level" /\ pc'[t] # "set_level" /\ ~initialized)
                 => /\ pc'[t] = "idle"
                    /\ proc' = "running"
                    /\ GetLogLevel' = GetLogLevel
                    /\ UNCHANGED <<stateVars, engineVars, sinkVars, rotVars, stderr,
                                   session>>
       /\ \A t \in Threads :
             (pc[t] = "init_build" /\ initialized')
                 => \E o \in {arg[t]} :
                        /\ GetLogLevel' = o.log_level
                        /\ level' = LevelSwitch(o.log_level)]_vars

\* C15 witness: SetLogLevel with another level than the stored one is about to
\* run on an uninitialized logger
C15_Witness ==
    \E t \in Threads :
        /\ pc[t] = "set_level"
        /\ ~initialized
        /\ mtx = 0
        /\ lvl[t] # GetLogLevel
        /\ SetSpdlogLevel(lvl[t]) # level

\* C16, spdlog build: SetLogLevel(L) on an initialized logger makes L the value
\* of GetLogLevel and the engine's level and writes no other option; the level
\* changes only through SetLogLevel while the logger stays initialized.
C16_SpdlogSetThenGet ==
    /\ [](initialized => level = LevelSwitch(GetLogLevel))
    /\ [][/\ \A t \in Threads :
                (pc[t] = "set_level" /\ pc'[t] # "set_level" /\ initialized)
                    => /\ GetLogLevel' = lvl[t]
                       /\ \E x \in LogLevels : opts = [opts' EXCEPT !.log_level = x]
          /\ (initialized /\ initialized' /\ GetLogLevel' # GetLogLevel)
                => \E t \in Threads : pc[t] = "set_level" /\ pc'[t] = "idle"]_vars

\* C16 (as claimed): on an initialized logger, after SetLogLevel(L) a call of
\* GetLogLevel returns L, for each of the six levels, until the next
\* SetLogLevel or Shutdown (glog build).
C16_SetThenGet ==
    (g_glog_inited /\ glog_set # <<>>)
        => GlogGetLevel(g_glog_inited, FLAGS_minloglevel) = glog_set[1]

RECURSIVE SumSizes(_)
SumSizes(q) == IF q = <<>> THEN 0 ELSE Head(q) + SumSizes(Tail(q))

RECURSIVE SumLengths(_)
SumLengths(q) == IF q = <<>> THEN 0 ELSE Head(q)[3] + SumLengths(Tail(q))

MaxRecordLength == CHOOSE n \in RecordLengths : \A m \in RecordLengths : m <= n

\* C17: a record that would take the current file past max_log_size goes to a
\* fresh file: the file the sink writes to is larger than max_log_size only
\* when it holds a single record, every closed file exceeds max_log_size by at
\* most the length of one record, and no byte is lost over the rotations.
C17_RotationBound ==
    /\ [](initialized
             => /\ curSize > opts.max_log_size
                      => (file # <<>> /\ file[Len(file)][3] = curSize)
                /\ \A i \in 1..Len(closed) :
                      closed[i] > 0 /\ closed[i] <= opts.max_log_size + MaxRecordLength
                /\ SumSizes(closed) + curSize = SumLengths(file))
    /\ [][AppendedTo(file, file')
              => \E r \in {file'[Len(file')]} :
                    \/ /\ curSize' = curSize + r[3]
                       /\ closed' = closed
                       /\ (curSize' <= opts.max_log_size \/ curSize = 0)
                    \/ /\ curSize' = r[3]
                       /\ closed' = <<curSize>> \o closed
                       /\ curSize > 0
                       /\ curSize + r[3] > opts.max_log_size]_vars

\* C17 witness: a file that one record alone took past the threshold has been
\* closed by a rotation
C17_Witness ==
    /\ closed # <<>>
    /\ closed[1] > opts.max_log_size
    /\ initialized
    /\ curSize > 0
    /\ Len(file) >= 2

Rotated == Len(closed') = Len(closed) + 1

\* C18 (as claimed): after a rotation the sink writes to a new file whose name
\* carries the time of the rotation and no number, and every earlier file,
\* the one just closed included, keeps the name it had.
C18_RotationNames ==
    [][Rotated
          => /\ CurrentName'.base.time = now
             /\ CurrentName'.number = 0
             /\ ClosedName(1)' = CurrentName
             /\ \A i \in 1..Len(closed) : ClosedName(i + 1)' = ClosedName(i)]_vars

\* C19: when the backend throws in Init, Init reports "spdlog init failed" on
\* standard error and returns with the mutex released and the process running;
\* the logger stays uninitialized (IsInitialized is false) and keeps the
\* logger object it had; while it is uninitialized every log
\* statement goes to standard error; only an Init that succeeds makes it
\* initialized.
C19_InitFailure ==
    /\ [][\A t \in Threads :
              (pc[t] = "init_build" /\ pc'[t] = "idle" /\ ~initialized')
                  => /\ stderr'.kind = "spdlog init failed"
                     /\ ~IsInitialized'
                     /\ mtx' = 0
                     /\ proc' = "running"
                     /\ UNCHANGED <<logger, session>>]_vars
    /\ [][\A t \in Threads :
              (pc[t] = "built" /\ pc'[t] = "idle" /\ ~IsInitialized)
                  => (stderr' = RecordLine(Rec(t)) /\ UNCHANGED <<queue, file, console>>)]_vars
    /\ [][(~initialized /\ initialized')
              => \E t \in Threads :
                    /\ pc[t] = "init_build"
                    /\ pc'[t] = "idle"
                    /\ logger' = session']_vars

\* C19 witness: the only Init so far has failed (its options are stored, no
\* logger was ever built) and a log statement has since gone to standard error
C19_Witness ==
    /\ session = 0
    /\ opts # DefaultOptions
    /\ mtx = 0
    /\ ~initialized
    /\ stderr.kind = "record"
    /\ pc[stderr.rec[1]] = "idle"
    /\ proc = "running"

\* C20 (as claimed): whatever fails in Init, the directory creation or the
\* construction of a sink, Init returns to the caller with the logger
\* initialized and the process running.
C20_DegradedInit ==
    [][\A t \in Threads :
          (pc[t] = "init_build" /\ pc'[t] = "idle")
              => (initialized' /\ proc' = "running" /\ mtx' = 0)]_vars

\* no two records' bytes are interleaved in q
Contiguous(q) ==
    \A i \in 1..Len(q), k \in 1..Len(q) :
        (i < k /\ q[i] = q[k]) => \A j \in i..k : q[j] = q[i]

\* the bytes of record r in q
BytesOf(q, r) == Cardinality({i \in 1..Len(q) : q[i] = <<r[1], r[2]>>})

\* C21: in a session that is asynchronous or has multi_thread set, on the file
\* and on the console the bytes of each record are contiguous, and a record
\* that a sink has finished is there with all its bytes.
C21_NoInterleaving ==
    (initialized /\ (opts.async_mode \/ opts.multi_thread))
        => /\ \A d \in Destinations : Contiguous(bytes[d])
           /\ \A i \in 1..Len(file) : BytesOf(bytes["file"], file[i]) = file[i][3]
           /\ \A i \in 1..Len(console) :
                 BytesOf(bytes["console"], console[i]) = console[i][3]

\* C21 witness: synchronous logger with _mt sinks: one thread is in the middle
\* of its record in the file while another waits at the file sink, and an
\* earlier record is complete on both destinations
C21_Witness ==
    /\ initialized
    /\ ~opts.async_mode
    /\ opts.multi_thread
    /\ \E t \in Threads, u \in Threads :
          /\ t # u
          /\ pc[t] = "sink" /\ cur[t] = 1 /\ sinkMtx["file"] = t
          /\ pc[u] = "sink" /\ cur[u] = 0
    /\ console # <<>>

\* synchronous logger with _st sinks and two producers: two records' bytes
\* are interleaved in the file
C21_StInterleaved ==
    /\ initialized
    /\ ~opts.async_mode
    /\ ~opts.multi_thread
    /\ ~Contiguous(bytes["file"])

\* C22: in the glog build, an Init that takes effect calls
\* InstallFailureSignalHandler once when enable_coredump_log is set and not at
\* all when it is not; an Init on an initialized logger does not call it; the
\* handler gets installed by no other operation.
C22_InstallOnce ==
    /\ [](glog_init # <<>>
             => glog_init[1].calls =
                   (IF glog_init[1].effect /\ glog_init[1].coredump THEN 1 ELSE 0))
    /\ [][glog_handler' # glog_handler
              => (glog_init' # <<>> /\ glog_init'[1].calls = 1 /\ glog_handler')]_vars

\* C22 witness: after an Init with enable_coredump_log that installed the
\* handler and a Shutdown, an Init without the option has taken effect
C22_Witness ==
    /\ glog_handler
    /\ g_glog_inited
    /\ glog_init # <<>>
    /\ glog_init[1].effect
    /\ ~glog_init[1].coredump
    /\ glog_init[1].calls = 0

\* C23 (as claimed): the level in force when the builder is constructed decides
\* whether its record is delivered: a SetLogLevel that another thread completes
\* while the builder is alive (constructed, its record not yet filtered)
\* leaves the decision the record gets as it was.
C23_DecidedAtConstruction ==
    [][\A t \in Threads, u \in Threads :
          (/\ t # u
           /\ pc[t] \in {"built", "log"}
           /\ pc[u] = "set_level"
           /\ pc'[u] = "idle"
           /\ initialized
           /\ default_logger # 0)
              => (should_log(MsgSpdlogLevel(lvl[t]), level')
                     <=> should_log(MsgSpdlogLevel(lvl[t]), level))]_vars

IsSeparator(ch) == ch \in {"/", "\\"}

\* the part of the path after its last separator of either style
BaseName(path) ==
    IF \E i \in 1..Len(path) : IsSeparator(path[i])
    THEN LET last == CHOOSE i \in 1..Len(path) :
                        /\ IsSeparator(path[i])
                        /\ \A j \in (i + 1)..Len(path) : ~IsSeparator(path[j])
         IN  SubSeq(path, last + 1, Len(path))
    ELSE path

RECURSIVE TextOf(_)
TextOf(vs) == IF vs = <<>> THEN <<>> ELSE Appended(Head(vs)) \o TextOf(Tail(vs))

\* C24: the buffer of a builder is "[<base>:<line>] " followed by the appended
\* values in their order, <base> being the part of the path after its last
\* '/' or '\', the whole path when it has neither.
C24_RecordPrefix ==
    impl # <<>>
        => impl[1].buf = <<"[">> \o BaseName(impl[1].file) \o <<":">>
                            \o Decimal(impl[1].line) \o <<"]", " ">>
                            \o TextOf(impl[1].vals)

\* C24 witness: a path with a '/' and a later '\', and two values appended
C24_Witness ==
    /\ impl # <<>>
    /\ \E i \in 1..Len(impl[1].file), j \in 1..Len(impl[1].file) :
          i < j /\ impl[1].file[i] = "/" /\ impl[1].file[j] = "\\"
    /\ Len(impl[1].vals) = 2
    /\ impl[1].vals[1] # impl[1].vals[2]
    /\ Filename(impl[1].file) # <<>>

\* C25 (as claimed): a log statement that has found the logger initialized
\* never works on an engine that Shutdown has torn down: its spdlog::log finds
\* the default logger, its post finds the pool of its logger running, its
\* write finds the sinks of its logger open, and the process does not crash.
C25_NoStaleDispatch ==
    [][/\ proc' # "crashed"
       /\ \A t \in Threads :
             /\ (pc[t] = "log" /\ pc'[t] # "log") => default_logger # 0
             /\ (pc[t] = "enqueue" /\ pc'[t] # "enqueue")
                   => (pool = tgt[t] /\ ~terminating)
             /\ (pc[t] = "sink" /\ pc'[t] # "sink")
                   => (logger = tgt[t] /\ fileOpen)]_vars

\* C26 (as claimed): an Init that fails leaves GetLogLevel() and ProgramName()
\* as they were before the call: as long as no Init has succeeded and no Init
\* is running, both return what they returned at the start.
C26_FailedInitKeepsConfig ==
    (session = 0 /\ ~initialized /\ LockFree)
        => /\ GetLogLevel = DefaultOptions.log_level
           /\ ProgramName = DefaultOptions.program_name

====
